---- MODULE Spec2Model ----
(***************************************************************************)
(* DSMCSimulation (src/dsmc.py): Larsen-Borgnakke DSMC relaxation of a     *)
(* diatomic gas in a periodic box.                                         *)
(*                                                                         *)
(* Numbers.  The program computes in reals; the model computes exactly on  *)
(* an integer grid.  Lengths, velocities and energies are whole multiples  *)
(* of a grid unit, and the physical constants are given values in grid     *)
(* units for which v_init, time_step and the initial rotational energy are *)
(* whole numbers.  A speed |v| is carried by its square (NormSq), so no    *)
(* root is ever rounded.  The centre-of-mass velocity 0.5*(v1+v2) is       *)
(* carried doubled (CM2 = v1+v2).  A random draw is a choice from the      *)
(* draws whose result lies on the grid.                                    *)
(***************************************************************************)
EXTENDS Integers, Sequences, FiniteSets

\* ---------------------------------------------------------------- bounds
MaxSteps == 2      \* largest n_steps a configuration asks for
MaxRuns == 2       \* calls of run_simulation on one object

\* ------------------------------------------------------- vector helpers
VAdd(a, b) == <<a[1] + b[1], a[2] + b[2], a[3] + b[3]>>
VSub(a, b) == <<a[1] - b[1], a[2] - b[2], a[3] - b[3]>>
VScale(k, a) == <<k * a[1], k * a[2], k * a[3]>>
VHalf(a) == <<a[1] \div 2, a[2] \div 2, a[3] \div 2>>
NormSq(a) == a[1] * a[1] + a[2] * a[2] + a[3] * a[3]
Abs(x) == IF x < 0 THEN -x ELSE x
Even(x) == x % 2 = 0
ISqrt(x) == CHOOSE r \in 0..x : r * r <= x /\ (r + 1) * (r + 1) > x
RECURSIVE GCD(_, _)
GCD(a, b) == IF b = 0 THEN a ELSE GCD(b, a % b)
Range(s) == {s[i] : i \in 1..Len(s)}

\* ------------------------------------------ constants of the simulation
n_particles == 3
T_tr_initial == 12
T_rot_initial == 4
Z_r == 245
domain_size == 30
n_cells == 2
pi_sigma2 == 1            \* np.pi * sigma_collision**2
k_B == 8
m_H2 == 32
density == 24
atol == 0                 \* tolerance of the energy check, in grid units
rtol_den == 100000        \* np.isclose's default rtol = 1e-5 = 1/rtol_den

Particles == 0..(n_particles - 1)

\* v_init = np.sqrt(3*k_B*T/m)
v_init == ISqrt((3 * k_B * T_tr_initial) \div m_H2)
cell_size == domain_size \div n_cells
\* 0.2 * (domain_size / n_cells) / v_init
DerivedTimeStep == (domain_size \div n_cells) \div (5 * v_init)
p_inelastic == <<Z_r - 1, Z_r>>             \* 1 - 1/Z_r as a fraction
\* eff_num = density/m * L**3 / n_particles, as a fraction
eff_num == <<density * domain_size * domain_size * domain_size, m_H2 * n_particles>>
\* coeff = 0.5*eff_num*pi*sigma**2*time_step / (L**3/n_cells), reduced
Coeff(dt) ==
    LET n == eff_num[1] * pi_sigma2 * dt * n_cells
        d == 2 * eff_num[2] * domain_size * domain_size * domain_size
        g == GCD(n, d)
    IN  <<n \div g, d \div g>>

\* ------------------------------------------------------ random draws
UDen == 1000
USet == {0, 500, 999}                   \* np.random.rand() = u/UDen
\* the grid vectors with components of at most r
Cube(r) == (-r..r) \X (-r..r) \X (-r..r)

\* ---------------------------------------------------------- the state
\* use_mdn, mdn_model, n_steps, time_step, coeff and the arrays, histories
\* and counters are the fields of the object (lines 18-62); time_step_arg
\* is the constructor's parameter time_step (line 16).
\* pc is the place the run is at: "idle" (outside run_simulation), "step"
\* (head of the loop of line 278), "cells" (head of the loops of lines
\* 247-249), "collide" (head of the loop of line 266), "failed" (the
\* assertion of line 180 has raised).  step, cell_index (the flattened
\* i, j, k), attempt (the _ of line 266), n_candidate_pairs and
\* max_rel_velocity_sq (the square of max_rel_velocity) are the locals of
\* these loops; idx1, idx2 are the pair last drawn (line 267) and outcome
\* the return perform_collision last took.
\* runs counts the calls of run_simulation, attempts the calls of
\* perform_collision (line 268) and predict_calls the calls of
\* mdn_model.predict (line 111, in mdn_energy_exchange, which no code calls).
VARIABLES
    use_mdn, mdn_model, time_step_arg, n_steps,
    time_step, coeff,
    positions, velocities, rotational_energy, cells,
    translational_energy_history, rotational_energy_history,
    total_energy_history,
    elastic_collisions, inelastic_collisions, rejected_collisions,
    pc, step, cell_index, attempt, n_candidate_pairs, max_rel_velocity_sq,
    idx1, idx2, outcome,
    runs, attempts, predict_calls

config == <<use_mdn, mdn_model, time_step_arg, n_steps, time_step, coeff>>
particles == <<positions, velocities, rotational_energy>>
histories == <<translational_energy_history, rotational_energy_history,
               total_energy_history>>
counters == <<elastic_collisions, inelastic_collisions, rejected_collisions>>
cell_loop == <<cell_index, attempt, n_candidate_pairs, max_rel_velocity_sq>>
drawn == <<idx1, idx2, outcome>>
vars == <<config, particles, cells, histories, counters, pc, step, cell_loop,
          drawn, runs, attempts, predict_calls>>

CellCoords == (0..(n_cells - 1)) \X (0..(n_cells - 1)) \X (0..(n_cells - 1))
NCells3 == n_cells * n_cells * n_cells
\* the (i, j, k) the three nested loops of dsmc_step are at
CellAt(c) == <<c \div (n_cells * n_cells), (c \div n_cells) % n_cells, c % n_cells>>

\* ------------------------------------------------------- construction
\* Samples of the constructor's arguments and of what initialize_positions
\* and initialize_velocities draw.  time_step_arg is <<>> when the caller
\* leaves the parameter at its default and <<t>> when the caller passes t;
\* n_steps is the set of the step counts the sample is constructed with.
PV(p0, p1, p2) == [i \in Particles |-> <<p0, p1, p2>>[i + 1]]

Constructions ==
    { \* a pair that meets in the corner of cell (0,0,0); a third particle
      \* that leaves the box through the face x = 0
      [use_mdn |-> FALSE, mdn_model |-> "None", time_step_arg |-> <<>>,
       n_steps |-> {1},
       positions  |-> PV(<<13, 14, 14>>, <<15, 14, 14>>, <<17, 14, 14>>),
       velocities |-> PV(<<1, 0, 0>>, <<-1, 0, 0>>, <<-1, 0, 0>>)],
      \* three particles that meet in the corner of cell (0,0,0)
      [use_mdn |-> TRUE, mdn_model |-> "model", time_step_arg |-> <<>>,
       n_steps |-> 0..MaxSteps,
       positions  |-> PV(<<13, 14, 14>>, <<14, 13, 14>>, <<14, 14, 14>>),
       velocities |-> PV(<<1, 0, 0>>, <<0, 1, 0>>, <<0, 0, 0>>)],
      \* two particles at rest relative to each other in one cell; a third
      \* that leaves the box through the face x = 0
      [use_mdn |-> TRUE, mdn_model |-> "None", time_step_arg |-> <<>>,
       n_steps |-> 0..MaxSteps,
       positions  |-> PV(<<3, 3, 3>>, <<4, 3, 3>>, <<0, 4, 14>>),
       velocities |-> PV(<<1, 1, 0>>, <<1, 1, 0>>, <<-1, 0, 1>>)],
      \* a pair that meets in the corner of cell (1,1,1), the caller passing time_step
      [use_mdn |-> FALSE, mdn_model |-> "None", time_step_arg |-> <<2>>,
       n_steps |-> 0..MaxSteps,
       positions  |-> PV(<<29, 28, 29>>, <<29, 0, 29>>, <<5, 5, 5>>),
       velocities |-> PV(<<0, 1, 0>>, <<0, -1, 0>>, <<0, 0, 0>>)] }

\* every bucket empty.  (The constructor leaves 0 in every slot, line 52;
\* no slot is read before the first assign_to_cells.)
initialize_cells == [c \in CellCoords |-> <<>>]

Init ==
    /\ \E c \in Constructions :
          /\ use_mdn = c.use_mdn
          /\ mdn_model = c.mdn_model
          /\ time_step_arg = c.time_step_arg
          /\ positions = c.positions
          /\ velocities = c.velocities
          /\ n_steps \in c.n_steps
    /\ time_step = DerivedTimeStep
    /\ coeff = Coeff(DerivedTimeStep)
    /\ rotational_energy = [i \in Particles |-> (k_B * T_rot_initial) \div 2]
    /\ cells = initialize_cells
    /\ translational_energy_history = <<>>
    /\ rotational_energy_history = <<>>
    /\ total_energy_history = <<>>
    /\ elastic_collisions = 0
    /\ inelastic_collisions = 0
    /\ rejected_collisions = 0
    /\ pc = "idle"
    /\ step = 0
    /\ cell_index = 0
    /\ attempt = 0
    /\ n_candidate_pairs = 0
    /\ max_rel_velocity_sq = 0
    /\ idx1 = 0
    /\ idx2 = 0
    /\ outcome = "none"
    /\ runs = 0
    /\ attempts = 0
    /\ predict_calls = 0

\* ------------------------------------------------------ run_simulation
\* the call and the two resets of lines 273-274
RunSimulation ==
    /\ pc = "idle"
    /\ runs < MaxRuns
    /\ runs' = runs + 1
    /\ translational_energy_history' = <<>>
    /\ rotational_energy_history' = <<>>
    /\ UNCHANGED total_energy_history
    /\ step' = 0
    /\ pc' = "step"
    /\ UNCHANGED <<config, particles, cells, counters, cell_loop, drawn,
                   attempts, predict_calls>>

\* ---------------------------------- update_positions, assign_to_cells
update_positions(pos, vel, dt) ==
    [i \in Particles |->
        <<(pos[i][1] + vel[i][1] * dt) % domain_size,
          (pos[i][2] + vel[i][2] * dt) % domain_size,
          (pos[i][3] + vel[i][3] * dt) % domain_size>>]

CellOf(p) == <<p[1] \div cell_size, p[2] \div cell_size, p[3] \div cell_size>>

RECURSIVE AppendAll(_, _, _, _)
\* for i in range(n_particles): cells[x, y, z].append(i)
AppendAll(bucket, c, pos, i) ==
    IF i = n_particles THEN bucket
    ELSE AppendAll(IF CellOf(pos[i]) = c THEN Append(bucket, i) ELSE bucket,
                   c, pos, i + 1)

\* assign_to_cells without its call of initialize_cells
assign_to_cells_no_reset(before, pos) ==
    [c \in CellCoords |-> AppendAll(before[c], c, pos, 0)]

assign_to_cells(before, pos) ==
    [c \in CellCoords |-> AppendAll(initialize_cells[c], c, pos, 0)]

\* lines 241 and 244 of dsmc_step
DsmcStepBegin ==
    /\ pc = "step"
    /\ step < n_steps
    /\ positions' = update_positions(positions, velocities, time_step)
    /\ cells' = assign_to_cells(cells, positions')
    /\ cell_index' = 0
    /\ pc' = "cells"
    /\ UNCHANGED <<config, velocities, rotational_energy, histories, counters,
                   step, attempt, n_candidate_pairs, max_rel_velocity_sq,
                   drawn, runs, attempts, predict_calls>>

\* ------------------------------------- max_relative_velocity_in_cell
calculate_relative_velocity(vel1, vel2) == VSub(vel1, vel2)

RelSq(vel, a, b) == NormSq(calculate_relative_velocity(vel[a], vel[b]))

\* max_rel_velocity = 0, then the running maximum over S
MaxOf(S) == IF S = {} THEN 0 ELSE CHOOSE y \in S : \A z \in S : y >= z

\* the inner loop starting at i + 2
max_relative_velocity_skipping_neighbours(particles_in_cell, vel) ==
    MaxOf({RelSq(vel, particles_in_cell[i], particles_in_cell[j]) :
             <<i, j>> \in {q \in (1..Len(particles_in_cell)) \X (1..Len(particles_in_cell)) :
                              q[1] + 1 < q[2]}})

\* the square of the value the method returns
max_relative_velocity_in_cell(particles_in_cell, vel) ==
    MaxOf({RelSq(vel, particles_in_cell[i], particles_in_cell[j]) :
             <<i, j>> \in {q \in (1..Len(particles_in_cell)) \X (1..Len(particles_in_cell)) :
                              q[1] < q[2]}})

\* n * n for n * (n - 1)
candidate_pairs_n_squared(cf, n, max_sq) ==
    ISqrt((cf[1] * n * n) * (cf[1] * n * n) * max_sq) \div cf[2]

\* int(coeff * n * (n - 1) * max_rel_velocity), max_rel_velocity = sqrt(max_sq)
candidate_pairs(cf, n, max_sq) ==
    ISqrt((cf[1] * n * (n - 1)) * (cf[1] * n * (n - 1)) * max_sq) \div cf[2]

\* one iteration of the i, j, k loops of dsmc_step, up to the attempt loop
ProcessCell ==
    /\ pc = "cells"
    /\ cell_index < NCells3
    /\ LET cell_particles == cells[CellAt(cell_index)]
           n_cell_particles == Len(cell_particles)
       IN  IF n_cell_particles < 2
           THEN /\ cell_index' = cell_index + 1
                /\ pc' = "cells"
                /\ UNCHANGED <<attempt, n_candidate_pairs, max_rel_velocity_sq>>
           ELSE /\ max_rel_velocity_sq' =
                      max_relative_velocity_in_cell(cell_particles, velocities)
                /\ n_candidate_pairs' =
                      candidate_pairs(coeff, n_cell_particles, max_rel_velocity_sq')
                /\ attempt' = 0
                /\ IF n_candidate_pairs' = 0
                   THEN pc' = "cells" /\ cell_index' = cell_index + 1
                   ELSE pc' = "collide" /\ cell_index' = cell_index
    /\ UNCHANGED <<config, particles, cells, histories, counters, step, drawn,
                   runs, attempts, predict_calls>>

\* ------------------------------------------------- perform_collision
\* np.random.rand() > norm(relative_velocity) / max_rel_velocity
Rejects(u, rel_sq, max_sq) == u * u * max_sq > UDen * UDen * rel_sq

\* np.random.rand() > self.p_inelastic
ElasticDraw(u2) == u2 * p_inelastic[2] > UDen * p_inelastic[1]

\* the results of random_unit_vector() * relative_speed that leave
\* CM_velocity + 0.5 * new_relative_velocity on the grid
Directions(speed_sq, CM2) ==
    {w \in Cube(ISqrt(speed_sq)) :
        /\ NormSq(w) = speed_sq
        /\ \A a \in 1..3 : Even(CM2[a] + w[a])}

\* 0.5 * m * np.sum((v1 - CM)**2 + (v2 - CM)**2), with v - CM = (2v - CM2)/2
PairTranslationalEnergy(v1, v2, CM2) ==
    (m_H2 * (NormSq(VSub(VScale(2, v1), CM2)) + NormSq(VSub(VScale(2, v2), CM2)))) \div 8

ERotPost(E_total_pre, E_trans_post) == E_total_pre - E_trans_post

\* np.sqrt(4 * E_trans_post / m), squared
RelativeSpeedSq(E_trans_post) == (4 * E_trans_post) \div m_H2

\* np.isclose(a, b, atol=atol): |a - b| <= atol + rtol * |b|
IsClose(a, b) == rtol_den * Abs(a - b) <= rtol_den * atol + Abs(b)

\* the acceptance test, then the type test (whose draw u2 is only used
\* when the attempt is accepted)
Outcome(u, u2, rel_sq, max_sq) ==
    IF Rejects(u, rel_sq, max_sq) THEN "rejected"
    ELSE IF ElasticDraw(u2) THEN "elastic"
    ELSE "inelastic"

\* the elastic branch without its increment
Tally_elastic_uncounted(o) ==
    <<elastic_collisions,
      inelastic_collisions + (IF o = "inelastic" THEN 1 ELSE 0),
      rejected_collisions + (IF o = "rejected" THEN 1 ELSE 0)>>

\* self.<outcome>_collisions += 1, as <<elastic, inelastic, rejected>>
Tally(o) ==
    <<elastic_collisions + (IF o = "elastic" THEN 1 ELSE 0),
      inelastic_collisions + (IF o = "inelastic" THEN 1 ELSE 0),
      rejected_collisions + (IF o = "rejected" THEN 1 ELSE 0)>>

\* the second assignment made one slot further on
UpdateVelocities_off_by_one(vel, i1, i2, CM2, new_relative_velocity) ==
    [[vel EXCEPT ![i1] = VHalf(VAdd(CM2, new_relative_velocity))]
          EXCEPT ![(i2 + 1) % n_particles] = VHalf(VSub(CM2, new_relative_velocity))]

\* velocities[idx1] = CM + 0.5 * new_rel; velocities[idx2] = CM - 0.5 * new_rel
UpdateVelocities(vel, i1, i2, CM2, new_relative_velocity) ==
    [vel EXCEPT ![i1] = VHalf(VAdd(CM2, new_relative_velocity)),
                ![i2] = VHalf(VSub(CM2, new_relative_velocity))]

\* each of the two given all of E_rot_post
SplitRotational_not_halved(rot, i1, i2, E_rot_post) ==
    [rot EXCEPT ![i1] = E_rot_post, ![i2] = E_rot_post]

\* rotational_energy[idx1] = rotational_energy[idx2] = E_rot_post / 2
SplitRotational(rot, i1, i2, E_rot_post) ==
    [rot EXCEPT ![i1] = E_rot_post \div 2, ![i2] = E_rot_post \div 2]

\* np.random.beta(1.5, 1) * E_total_pre, for the fractions that put the
\* new relative speed on the grid
TransPostDraws(E_total_pre) ==
    {(m_H2 * speed_sq) \div 4 : speed_sq \in 0..((4 * E_total_pre) \div m_H2)}

\* the end of one pass of "for _ in range(n_candidate_pairs)"
NextAttempt ==
    /\ attempt' = attempt + 1
    /\ IF attempt + 1 < n_candidate_pairs
       THEN pc' = "collide" /\ cell_index' = cell_index
       ELSE pc' = "cells" /\ cell_index' = cell_index + 1

\* one pass of the attempt loop: the draw of the pair and perform_collision
PerformCollision ==
    /\ pc = "collide"
    /\ attempts' = attempts + 1
    /\ \E i1, i2 \in Range(cells[CellAt(cell_index)]), u, u2 \in USet :
        LET velocity1 == velocities[i1]
            velocity2 == velocities[i2]
            relative_velocity == calculate_relative_velocity(velocity1, velocity2)
            CM2 == VAdd(velocity1, velocity2)
            o == Outcome(u, u2, NormSq(relative_velocity), max_rel_velocity_sq)
        IN
        /\ i1 # i2               \* np.random.choice(.., 2, replace=False)
        /\ idx1' = i1
        /\ idx2' = i2
        /\ outcome' = o
        /\ elastic_collisions' = Tally(o)[1]
        /\ inelastic_collisions' = Tally(o)[2]
        /\ rejected_collisions' = Tally(o)[3]
        /\ CASE o = "rejected" ->
                 /\ NextAttempt
                 /\ UNCHANGED <<velocities, rotational_energy>>
             [] o = "elastic" ->
                 /\ \E new_relative_velocity \in
                          Directions(NormSq(relative_velocity), CM2) :
                      velocities' = UpdateVelocities(velocities, i1, i2, CM2,
                                                     new_relative_velocity)
                 /\ NextAttempt
                 /\ UNCHANGED rotational_energy
             [] o = "inelastic" ->
                 LET E_trans_pre == PairTranslationalEnergy(velocity1, velocity2, CM2)
                     E_rot_pre == rotational_energy[i1] + rotational_energy[i2]
                     E_total_pre == E_trans_pre + E_rot_pre
                 IN
                 \E E_trans_post \in TransPostDraws(E_total_pre) :
                   LET E_rot_post == ERotPost(E_total_pre, E_trans_post)
                       rot == SplitRotational(rotational_energy, i1, i2, E_rot_post)
                   IN
                   /\ E_trans_post <= E_total_pre    \* the fraction is in [0, 1]
                   /\ Even(E_rot_post)               \* E_rot_post / 2 on the grid
                   /\ rotational_energy' = rot
                   /\ \E new_relative_velocity \in
                             Directions(RelativeSpeedSq(E_trans_post), CM2) :
                        LET vel == UpdateVelocities(velocities, i1, i2, CM2,
                                                    new_relative_velocity)
                            E_trans_post_check ==
                                PairTranslationalEnergy(vel[i1], vel[i2], CM2)
                            E_rot_post_check == rot[i1] + rot[i2]
                            E_total_post == E_trans_post_check + E_rot_post_check
                        IN  /\ velocities' = vel
                            /\ IF IsClose(E_total_pre, E_total_post)
                               THEN NextAttempt
                               ELSE /\ pc' = "failed"  \* AssertionError
                                    /\ UNCHANGED <<attempt, cell_index>>
    /\ UNCHANGED <<config, positions, cells, histories, step,
                   n_candidate_pairs, max_rel_velocity_sq, runs, predict_calls>>

\* ------------------------------------ the rest of the run loop's body
compute_kinetic_energy(velocity) == (m_H2 * NormSq(velocity)) \div 2

RECURSIVE SumOver(_, _)
SumOver(f, i) == IF i = n_particles THEN 0 ELSE f[i] + SumOver(f, i + 1)

calculate_total_energy(vel, rot) ==
    LET total_kinetic_energy ==
            SumOver([i \in Particles |-> compute_kinetic_energy(vel[i])], 0)
        total_rotational_energy == SumOver(rot, 0)
    IN  <<total_kinetic_energy, total_rotational_energy,
          total_kinetic_energy + total_rotational_energy>>

RecordEnergies ==
    /\ pc = "cells"
    /\ cell_index = NCells3
    /\ LET e == calculate_total_energy(velocities, rotational_energy)
       IN  /\ translational_energy_history' =
                  Append(translational_energy_history, e[1])
           /\ rotational_energy_history' = Append(rotational_energy_history, e[2])
           /\ total_energy_history' = Append(total_energy_history, e[3])
    /\ step' = step + 1
    /\ pc' = "step"
    /\ UNCHANGED <<config, particles, cells, counters, cell_loop, drawn, runs,
                   attempts, predict_calls>>

\* the loop of run_simulation is over: "Simulation complete."
RunComplete ==
    /\ pc = "step"
    /\ step >= n_steps
    /\ pc' = "idle"
    /\ UNCHANGED <<config, particles, cells, histories, counters, step,
                   cell_loop, drawn, runs, attempts, predict_calls>>

Next ==
    \/ RunSimulation
    \/ DsmcStepBegin
    \/ ProcessCell
    \/ PerformCollision
    \/ RecordEnergies
    \/ RunComplete

Spec == Init /\ [][Next]_vars

\* =================================================== the properties
CurrentCell == cells[CellAt(cell_index)]
InCellLoop == pc \in {"cells", "collide"}
Changed(i) == velocities'[i] # velocities[i]
                \/ rotational_energy'[i] # rotational_energy[i]

\* C1: at every point of a run the three counters add up to the number of
\* collision attempts made so far; an attempt adds exactly 1 to exactly one
\* of them, and no counter ever decreases.
C1_CounterCompleteness ==
    /\ [](elastic_collisions + inelastic_collisions + rejected_collisions = attempts)
    /\ [][/\ elastic_collisions' >= elastic_collisions
          /\ inelastic_collisions' >= inelastic_collisions
          /\ rejected_collisions' >= rejected_collisions
          /\ pc = "collide" =>
               \/ counters' = <<elastic_collisions + 1, inelastic_collisions, rejected_collisions>>
               \/ counters' = <<elastic_collisions, inelastic_collisions + 1, rejected_collisions>>
               \/ counters' = <<elastic_collisions, inelastic_collisions, rejected_collisions + 1>>
          /\ pc # "collide" => counters' = counters]_vars

\* an attempt of a second run has been counted on top of the first run's
C1_Witness ==
    /\ runs = 2
    /\ n_steps = 1
    /\ elastic_collisions > 0
    /\ inelastic_collisions > 0

\* the pair's energy: translational in the centre-of-mass frame, m*|v1-v2|^2/4,
\* plus the two rotational energies
PairEnergy(vel, rot, a, b) == (m_H2 * RelSq(vel, a, b)) \div 4 + rot[a] + rot[b]

\* C2: an inelastic collision leaves the pair's total energy and its
\* centre-of-mass velocity as they were, for every fraction and direction
\* drawn, and the energy check of perform_collision never fails.
C2_EnergyConserved ==
    [][inelastic_collisions' = inelastic_collisions + 1 =>
         /\ Abs(PairEnergy(velocities', rotational_energy', idx1', idx2')
                  - PairEnergy(velocities, rotational_energy, idx1', idx2')) <= atol
         /\ VAdd(velocities'[idx1'], velocities'[idx2'])
              = VAdd(velocities[idx1'], velocities[idx2'])
         /\ pc' # "failed"]_vars

\* an inelastic collision has moved rotational energy into translation
C2_Witness ==
    /\ outcome = "inelastic"
    /\ inelastic_collisions = 1
    /\ elastic_collisions = 0
    /\ rotational_energy[idx1] < (k_B * T_rot_initial) \div 2

\* C3: after k completed steps of a call of run_simulation each of the three
\* histories holds k entries, and n_steps entries once the call has returned;
\* this for every call on the object.
C3_HistoryLengths ==
    /\ pc \in {"step", "cells", "collide"} =>
         /\ Len(translational_energy_history) = step
         /\ Len(rotational_energy_history) = step
         /\ Len(total_energy_history) = step
    /\ (pc = "idle" /\ runs > 0) =>
         /\ Len(translational_energy_history) = n_steps
         /\ Len(rotational_energy_history) = n_steps
         /\ Len(total_energy_history) = n_steps

\* C4: after every rebuild of the cell index each particle is in exactly one
\* bucket, once, the bucket of floor(position / cell_size), whose coordinate
\* is in [0, n_cells - 1] on every axis; every position component is in
\* [0, domain_size).
C4_CellsPartition ==
    InCellLoop =>
      \A i \in Particles :
        /\ \A a \in 1..3 : positions[i][a] >= 0 /\ positions[i][a] < domain_size
        /\ \A a \in 1..3 : positions[i][a] \div cell_size \in 0..(n_cells - 1)
        /\ \A c \in CellCoords :
             Cardinality({k \in 1..Len(cells[c]) : cells[c][k] = i})
               = (IF c = <<positions[i][1] \div cell_size,
                           positions[i][2] \div cell_size,
                           positions[i][3] \div cell_size>> THEN 1 ELSE 0)

\* the second rebuild of a run, a particle having left through the face x = 0
C4_Witness ==
    /\ InCellLoop
    /\ step = 1
    /\ \E c \in CellCoords : Len(cells[c]) >= 2
    /\ \E i \in Particles : positions[i][1] = domain_size - 2 /\ velocities[i][1] = -1

\* n is the number floor(cf * n * (n - 1) * sqrt(max_sq))
IsFloorOfRate(k, cf, n, max_sq) ==
    LET a == cf[1] * n * (n - 1)
    IN  /\ (cf[2] * k) * (cf[2] * k) <= a * a * max_sq
        /\ a * a * max_sq < (cf[2] * (k + 1)) * (cf[2] * (k + 1))

\* C5: a cell with fewer than 2 particles gets no attempt and changes
\* nothing; a cell with n >= 2 gets exactly floor(coeff*n*(n-1)*v_rel,max)
\* attempts, v_rel,max being the largest pairwise relative speed of the cell
\* before its first attempt; no attempt is made with v_rel,max = 0.
C5_AttemptCount ==
    [][/\ (pc = "cells" /\ cell_index < NCells3 /\ Len(CurrentCell) < 2) =>
            /\ attempts' = attempts
            /\ UNCHANGED <<particles, cells, counters>>
            /\ pc' = "cells" /\ cell_index' = cell_index + 1
       /\ (pc = "cells" /\ cell_index < NCells3 /\ Len(CurrentCell) >= 2) =>
            /\ \A a, b \in Range(CurrentCell) :
                 RelSq(velocities, a, b) <= max_rel_velocity_sq'
            /\ \E a, b \in Range(CurrentCell) :
                 a # b /\ RelSq(velocities, a, b) = max_rel_velocity_sq'
            /\ IsFloorOfRate(n_candidate_pairs', coeff, Len(CurrentCell),
                             max_rel_velocity_sq')
            /\ attempt' = 0
            /\ attempts' = attempts
            /\ (n_candidate_pairs' = 0) <=> (pc' = "cells")
            /\ (n_candidate_pairs' > 0) <=> (pc' = "collide")
       /\ pc = "collide" =>
            /\ max_rel_velocity_sq > 0
            /\ attempt < n_candidate_pairs
            /\ attempts' = attempts + 1
            /\ UNCHANGED <<n_candidate_pairs, max_rel_velocity_sq>>
            /\ pc' # "failed" =>
                 /\ attempt' = attempt + 1
                 /\ (pc' = "collide") <=> (attempt' < n_candidate_pairs)
                 /\ (pc' = "cells") <=> (attempt' = n_candidate_pairs)
       /\ pc # "collide" => attempts' = attempts]_vars

\* a cell of three has had its two attempts
C5_Witness ==
    /\ pc = "cells"
    /\ cell_index > 0
    /\ Len(cells[CellAt(cell_index - 1)]) = 3
    /\ n_candidate_pairs = 2
    /\ attempt = 2

\* C6: a rejected attempt changes no velocity, rotational energy or position;
\* an elastic one changes no rotational energy; any attempt changes at most
\* the two drawn particles, which are distinct and in the cell being
\* processed, and changes neither positions nor the cell index.
C6_CollisionFrame ==
    [][pc = "collide" =>
         /\ positions' = positions
         /\ cells' = cells
         /\ idx1' # idx2'
         /\ {idx1', idx2'} \subseteq Range(CurrentCell)
         /\ \A i \in Particles : Changed(i) => i \in {idx1', idx2'}
         /\ rejected_collisions' = rejected_collisions + 1 =>
              /\ UNCHANGED <<particles, elastic_collisions, inelastic_collisions>>
         /\ elastic_collisions' = elastic_collisions + 1 =>
              rotational_energy' = rotational_energy]_vars

\* an elastic collision in a cell of three has turned the drawn pair
C6_Witness ==
    /\ outcome = "elastic"
    /\ attempts = 1
    /\ \E c \in CellCoords : Len(cells[c]) = 3 /\ {idx1, idx2} \subseteq Range(cells[c])
    /\ velocities[idx1] # velocities[idx2]
    /\ \E i \in Particles \ {idx1, idx2} : velocities[i] = <<0, 0, 0>>

\* C7: with use_mdn and a surrogate, every inelastic collision takes its
\* fractions from one call of predict.
C7_SurrogateUsed ==
    (use_mdn /\ mdn_model # "None") => predict_calls = inelastic_collisions

\* C8: a time_step passed at construction is the step of every position
\* update and of coeff.
C8_TimeStepGiven ==
    [][(time_step_arg # <<>> /\ pc = "step" /\ pc' = "cells") =>
         /\ positions' = update_positions(positions, velocities, time_step_arg[1])
         /\ coeff = Coeff(time_step_arg[1])]_vars

InvalidConfiguration ==
    \/ n_particles <= 0
    \/ n_steps <= 0
    \/ domain_size <= 0
    \/ T_tr_initial <= 0
    \/ pi_sigma2 <= 0
    \/ (use_mdn /\ mdn_model = "None")

\* C9: an invalid configuration is refused at construction: no step runs
\* and no counter or history changes.
C9_InvalidRefused ==
    InvalidConfiguration =>
      /\ pc = "idle"
      /\ runs = 0
      /\ counters = <<0, 0, 0>>
      /\ histories = <<<<>>, <<>>, <<>>>>

\* every pair of the cell being processed is no faster than v_rel,max
AllPairsWithin ==
    \A a, b \in Range(CurrentCell) : RelSq(velocities, a, b) <= max_rel_velocity_sq

\* C10 as stated: at every attempt, whatever pair is drawn, its relative
\* speed is at most the v_rel,max passed to the attempt.
C10_Original == pc = "collide" => AllPairsWithin

\* C10 as amended: this holds at the first attempt of a cell and for as long
\* as the attempts before it in that cell were all rejected.
C10_WithinUntilAccepted ==
    [][(/\ pc' = "collide"
        /\ \/ pc = "cells"
           \/ /\ pc = "collide"
              /\ AllPairsWithin
              /\ rejected_collisions' = rejected_collisions + 1)
       => AllPairsWithin']_vars

\* the second attempt of a cell, the first having been rejected
C10_Witness ==
    /\ pc = "collide"
    /\ attempt = 1
    /\ outcome = "rejected"
    /\ \E a, b \in Range(CurrentCell) :
         a # b /\ RelSq(velocities, a, b) < max_rel_velocity_sq

====
